---- MODULE Spec2Model ----
(***************************************************************************)
(* pdf2md_ollama: page-by-page PDF -> Markdown conversion through an LLM   *)
(* backend.  The model covers                                              *)
(*   - the output file as text (a sequence of tokens: newlines, the        *)
(*     header prefix, decimal digits, the rule "---", content tokens),     *)
(*   - get_completed_pages (the resume scan, a regular expression),        *)
(*   - query_gemma3_with_images_progressive (the progressive job runner),  *)
(*   - query_gemma3_with_images (batch mode) and the write of its result, *)
(*   - OpenRouterClient (rate limiter and retry loop), on an integer clock *)
(*     whose tick is a tenth of a second.                                  *)
(***************************************************************************)
EXTENDS Integers, Sequences, FiniteSets, TLC

VARIABLES
    \* ---- the job and the file system (src/src/pdf2md.py) ----
    num_pages,        \* len(image_bytes_list)
    resp,             \* what the backend answers for each page: 0 plain text,
                      \* M > 0 text that also holds the line "## Page M"
    origin,           \* <<exists, file>> before the first run
    model,            \* the local model name of the job, a sequence of characters
    exists,           \* os.path.exists(output_file)
    file,             \* the persisted text of output_file
    pc,               \* position of the runner process
    start_arg,        \* start_page as passed by the caller
    start_page,       \* start_page after the clamp of lines 57-58
    provider,         \* "ollama" | "openrouter"
    api_key,          \* OPENROUTER_API_KEY for this run: "unset" | "empty" | "set"
    completed_pages,  \* the set computed at line 50
    file_mode,        \* "a" | "w" (line 54)
    page_num,         \* the loop's page number (i + 1)
    response,         \* the text of the call in flight
    calls,            \* pages sent to the backend in this run, in order
    payloads,         \* what each backend call of this run carried
    runs,             \* number of runs started
    runlog,           \* one record per finished or interrupted run
    file0,            \* the file when the current run started
    exists0,
    openrouter_model, \* the remote model id computed at line 72
    read_ok,          \* the read of lines 28-29 did not raise an I/O error
    sent_ok,          \* pages whose backend call returned text, over all runs
    \* ---- batch mode (query_gemma3_with_images and its caller) ----
    all_responses,    \* the blocks collected at line 148
    extracted_text,   \* what query_gemma3_with_images returned
    \* ---- the resume scan on its own ----
    seed,             \* the blocks a file was built from: page and mention
    scanned,          \* the result of get_completed_pages
    \* ---- OpenRouterClient (src/src/openrouter_client.py) ----
    now,                \* time.time(), in ticks of a tenth of a second
    request_delay,      \* self.request_delay, in ticks
    max_retries,        \* self.max_retries
    backoff_factor,     \* self.backoff_factor, a whole number of seconds
    last_request_time,  \* self.last_request_time
    cpc,                \* position inside chat_with_images
    attempt,            \* the loop variable of line 110
    backoff_delay,      \* the delay computed at line 123 / 140
    outcome,            \* how the last chat_with_images ended
    retries_reported,   \* the retry count in the rate-limit error's text
    sends,              \* calls of chat_with_images so far
    http_calls,         \* requests.post calls of the current send
    sleeps,             \* backoff sleeps of the current send
    last_response,      \* the response or exception the loop body is handling
    all_429,            \* every response of the current send was an HTTP 429
    prev_turn,          \* instants at which the last two calls of
    cur_turn,           \*   _wait_for_rate_limit returned (-1: none)
    waited,             \* the last _wait_for_rate_limit slept
    prev_sent,          \* instants of the last two requests.post calls
    cur_sent            \*   (-1: none)

vars == <<num_pages, resp, origin, model, openrouter_model, exists, file, pc, start_arg, start_page, provider,
          api_key, completed_pages, file_mode, page_num, response, calls, payloads,
          runs, runlog, file0, exists0, read_ok, sent_ok, all_responses,
          extracted_text,
          seed, scanned,
          now, request_delay, max_retries, backoff_factor, last_request_time,
          cpc, attempt, backoff_delay, outcome, retries_reported, sends, http_calls, sleeps,
          last_response, all_429, prev_turn, cur_turn, waited, prev_sent,
          cur_sent>>

jobVars == <<num_pages, resp, origin, model>>
runVars == <<start_arg, start_page, provider, api_key, completed_pages,
             file_mode, page_num, response, calls, payloads, runs, runlog,
             file0, exists0, openrouter_model, read_ok>>
batchVars == <<all_responses, extracted_text>>
histVars == <<sent_ok>>
scanVars == <<seed, scanned>>
clientVars == <<now, request_delay, max_retries, backoff_factor,
                last_request_time, cpc, attempt, backoff_delay, outcome, retries_reported, sends, http_calls,
                sleeps, last_response, all_429, prev_turn, cur_turn, waited,
                prev_sent, cur_sent>>

-----------------------------------------------------------------------------
(* Bounds of the model *)

MaxPages == 3        \* pages of a job
MaxRuns == 2         \* progressive runs on one output path
MaxMentions == 1     \* pages whose backend text holds a header-like line
MaxSeedPage == 12    \* largest page number of a hand-built file
MaxSeedLen == 2      \* blocks of a hand-built file
MaxDelay == 3        \* largest request_delay, in ticks
MaxRetries == 2      \* largest max_retries
MaxSends == 2        \* calls of chat_with_images on one client
MaxLag == 1          \* ticks a request, an oversleep or the caller may take
MaxTurns == 3        \* calls of _wait_for_rate_limit on its own
MaxWait == 4         \* ticks between two calls of _wait_for_rate_limit
StartClock == 100    \* the clock when the client is constructed
MaxNameLen == 6      \* characters of an enumerated model name
MaxFactor == 3       \* largest backoff_factor, in seconds
MaxBelow == 2        \* how far below 1 a start page may be

-----------------------------------------------------------------------------
(* Text *)

NL == "\n"
HdrPrefix == "## Page "
Rule == "---"
BadByte == "\\xff"          \* a byte that is not valid UTF-8
ContentPrefix == "Content for page "

DigitChars == <<"0", "1", "2", "3", "4", "5", "6", "7", "8", "9">>

IsDigit(t) == \E d \in 1..10 : DigitChars[d] = t

DigitVal(t) == (CHOOSE d \in 1..10 : DigitChars[d] = t) - 1

\* str(page_num) inside the f-strings
RECURSIVE Digits(_)
Digits(n) ==
    IF n < 10 THEN <<DigitChars[n + 1]>>
    ELSE Digits(n \div 10) \o <<DigitChars[(n % 10) + 1]>>

\* int(page_num) on a matched group
RECURSIVE ParseInt(_)
ParseInt(ds) ==
    IF ds = <<>> THEN 0
    ELSE ParseInt(SubSeq(ds, 1, Len(ds) - 1)) * 10 + DigitVal(ds[Len(ds)])

\* f.write("\n\n---\n\n")
Separator == <<NL, NL, Rule, NL, NL>>

\* f"## Page {page_num}\n\n{response}"
PageBlock(p, text) == <<HdrPrefix>> \o Digits(p) \o <<NL, NL>> \o text

\* "\n\n---\n\n".join(blocks)
RECURSIVE JoinBlocks(_)
JoinBlocks(bs) ==
    IF bs = <<>> THEN <<>>
    ELSE IF Len(bs) = 1 THEN bs[1]
    ELSE bs[1] \o Separator \o JoinBlocks(Tail(bs))

-----------------------------------------------------------------------------
(* get_completed_pages: re.findall(r'^## Page (\d+)$', content, re.MULTILINE) *)

\* the end of the greedy run of digits that starts at position i
RECURSIVE DigitRunEnd(_, _)
DigitRunEnd(text, i) ==
    IF i <= Len(text) /\ IsDigit(text[i]) THEN DigitRunEnd(text, i + 1) ELSE i - 1

\* '^' at i, the literal prefix, one or more digits, '$'
HeaderMatchAt(text, i) ==
    /\ text[i] = HdrPrefix
    /\ (i = 1 \/ text[i - 1] = NL)
    /\ LET e == DigitRunEnd(text, i + 1)
       IN  /\ e >= i + 1
           /\ (e = Len(text) \/ text[e + 1] = NL)

HeaderMatches(text) == {i \in 1..Len(text) : HeaderMatchAt(text, i)}

MatchedPage(text, i) == ParseInt(SubSeq(text, i + 1, DigitRunEnd(text, i + 1)))

HeaderPages(text) == {MatchedPage(text, i) : i \in HeaderMatches(text)}

\* open(..., encoding='utf-8').read() raises on a byte that does not decode
Decodable(text) == \A i \in 1..Len(text) : text[i] # BadByte

get_completed_pages_LenientDecode(ex, text) ==
    IF ~ex THEN {} ELSE HeaderPages(text)

get_completed_pages(ex, text) ==
    IF ~ex THEN {}
    ELSE IF ~Decodable(text) THEN {}
    ELSE HeaderPages(text)

\* the same when open() or read() of an existing file may raise an OSError
\* (ok = FALSE): the except clause of lines 37-39 returns set()
ScanOutput(ex, ok, text) ==
    IF ex /\ ~ok THEN {} ELSE get_completed_pages(ex, text)

-----------------------------------------------------------------------------
(* The backend and the files a job may start from *)

\* the test suites' "Content for page N"
PlainText(p) == <<ContentPrefix>> \o Digits(p)

\* a page's text: plain (m = 0), or with a further line that reads like the
\* header of page m
TextMentioning(p, m) ==
    IF m = 0 THEN PlainText(p)
    ELSE PlainText(p) \o <<NL, HdrPrefix>> \o Digits(m)

\* the text the backend returns for page p
ResponseText(p) == TextMentioning(p, resp[p])

\* create_partial_output_file of test_resume_functionality.py, pages 1..k
SeedFile(k) == JoinBlocks([p \in 1..k |-> PageBlock(p, PlainText(p))])

\* the document an uninterrupted run from page 1 writes
FullRunFile == JoinBlocks([p \in 1..num_pages |-> PageBlock(p, ResponseText(p))])

Notes == <<"notes", NL>>

InitialFiles(n) ==
    {<<FALSE, <<>>>>, <<TRUE, <<>>>>, <<TRUE, Notes>>}
        \cup {<<TRUE, SeedFile(k)>> : k \in 1..n}
        \cup {<<TRUE, SeedFile(k) \o <<BadByte>>>> : k \in 1..n}

-----------------------------------------------------------------------------
(* get_openrouter_model: model names are sequences of characters *)

DefaultLocalModel == <<"g", "e", "m", "m", "a", "3", ":", "1", "2", "b">>

Gemma27bFree == "google/gemma-3-27b-it:free"
NoModel == "none"

GemmaPrefix == <<"g", "e", "m", "m", "a">>

\* str.startswith
StartsWith(name, prefix) ==
    /\ Len(name) >= Len(prefix)
    /\ SubSeq(name, 1, Len(prefix)) = prefix

\* lines 166-175
OPENROUTER_MODEL_MAPPING ==
    (<<"g", "e", "m", "m", "a", "3", ":", "1", "2", "b">> :> Gemma27bFree)
        @@ (<<"g", "e", "m", "m", "a", "3", ":", "4", "b">> :> Gemma27bFree)
        @@ (<<"l", "l", "a", "m", "a", "3">> :> "meta-llama/llama-3-8b-instruct")
        @@ (<<"l", "l", "a", "m", "a", "3", ":", "7", "0", "b">> :> "meta-llama/llama-3-70b-instruct")
        @@ (<<"v", "i", "s", "i", "o", "n">> :> "meta-llama/llama-3.2-11b-vision-instruct:free")
        @@ (<<"c", "l", "a", "u", "d", "e", "-", "v", "i", "s", "i", "o", "n">>
               :> "anthropic/claude-3-haiku:beta")
        @@ (<<"g", "p", "t", "4", "-", "v", "i", "s", "i", "o", "n">> :> "openai/gpt-4o-mini")

\* dict.get(key, default)
DictGet(table, key, default) ==
    IF key \in DOMAIN table THEN table[key] ELSE default

get_openrouter_model_NoDefault(ollama_model) ==
    IF StartsWith(ollama_model, GemmaPrefix) THEN Gemma27bFree
    ELSE DictGet(OPENROUTER_MODEL_MAPPING, ollama_model, NoModel)

\* lines 177-182
get_openrouter_model(ollama_model) ==
    IF StartsWith(ollama_model, GemmaPrefix) THEN Gemma27bFree
    ELSE DictGet(OPENROUTER_MODEL_MAPPING, ollama_model, Gemma27bFree)

-----------------------------------------------------------------------------
(* Values of the parts of the state that a specification does not use *)

NoResponse ==
    [kind |-> "none", status |-> "none", body |-> "none", mentions429 |-> FALSE]

\* the state of a client right after __init__ (lines 38-42)
ClientStart ==
    /\ last_request_time = 0
    /\ cpc = "ready"
    /\ attempt = 0
    /\ backoff_delay = 0
    /\ outcome = "none"
    /\ retries_reported = -1
    /\ sends = 0
    /\ http_calls = 0
    /\ sleeps = 0
    /\ last_response = NoResponse
    /\ all_429 = FALSE
    /\ prev_turn = -1
    /\ cur_turn = -1
    /\ waited = FALSE
    /\ prev_sent = -1
    /\ cur_sent = -1

BackoffFactor == 2       \* the default backoff_factor, in seconds

\* no client is in use
ClientIdle ==
    /\ now = StartClock
    /\ request_delay = 0
    /\ max_retries = 0
    /\ backoff_factor = BackoffFactor
    /\ ClientStart

\* no job is running
RunnerAtRest ==
    /\ num_pages = 0
    /\ resp = <<>>
    /\ origin = <<FALSE, <<>>>>
    /\ exists = FALSE
    /\ file = <<>>
    /\ pc = "idle"
    /\ start_arg = 1
    /\ start_page = 1
    /\ provider = "ollama"
    /\ api_key = "set"
    /\ completed_pages = {}
    /\ file_mode = "w"
    /\ page_num = 0
    /\ response = <<>>
    /\ calls = <<>>
    /\ payloads = <<>>
    /\ runs = 0
    /\ runlog = <<>>
    /\ file0 = <<>>
    /\ exists0 = FALSE
    /\ read_ok = TRUE
    /\ sent_ok = <<>>
    /\ all_responses = <<>>
    /\ extracted_text = <<>>
    /\ openrouter_model = NoModel
    /\ seed = <<>>
    /\ scanned = {}

RunnerIdle ==
    /\ model = DefaultLocalModel
    /\ RunnerAtRest

-----------------------------------------------------------------------------
(* query_gemma3_with_images_progressive *)

Terminal == {"idle", "returned", "done", "exit1", "crashed", "killed"}

\* how a run ended: "returned", "done", "exit1", "crashed", "killed" (between
\* two pages) or "killed_in_flight" (a response received and not yet written)
LogEntry(how) == [start |-> start_arg, end |-> how]

IsResuming_CompletedOnly(sp, completed) == Cardinality(completed) > 0

\* line 51
IsResuming(sp, completed) == sp > 1 \/ Cardinality(completed) > 0

FileMode_AlwaysTruncate(sp, completed, ex) == "w"

\* line 54
FileMode(sp, completed, ex) ==
    IF IsResuming(sp, completed) /\ ex THEN "a" ELSE "w"

ClampStartPage_None(sp) == sp

\* lines 57-58
ClampStartPage(sp) == IF sp < 1 THEN 1 ELSE sp

StartPageTooLarge_OffByOne(sp, n) == sp > n + 1

\* line 59
StartPageTooLarge(sp, n) == sp > n

\* lines 49-61: scan, resume decision, file mode, clamp and validation
StartRun(sp, prov, key, ok) ==
    /\ pc \in Terminal
    /\ runs < MaxRuns
    /\ (~exists => ok)
    /\ read_ok' = ok
    /\ LET completed == ScanOutput(exists, ok, file)
           clamped == ClampStartPage(sp)
       IN  /\ completed_pages' = completed
           /\ file_mode' = FileMode(sp, completed, exists)
           /\ start_page' = clamped
           /\ pc' = IF StartPageTooLarge(clamped, num_pages)
                      THEN "returned" ELSE "open"
           /\ runlog' = IF StartPageTooLarge(clamped, num_pages)
                          THEN Append(runlog, [start |-> sp, end |-> "returned"])
                          ELSE runlog
    /\ start_arg' = sp
    /\ provider' = prov
    /\ api_key' = key
    /\ page_num' = 0
    /\ response' = <<>>
    /\ calls' = <<>>
    /\ payloads' = <<>>
    /\ runs' = runs + 1
    /\ file0' = file
    /\ exists0' = exists
    /\ openrouter_model' = NoModel
    /\ UNCHANGED <<exists, file>>
    /\ UNCHANGED jobVars
    /\ UNCHANGED histVars
    /\ UNCHANGED batchVars
    /\ UNCHANGED scanVars
    /\ UNCHANGED clientVars

\* the environment variable as a run may find it
ApiKeys == {"unset", "empty", "set"}

KeyMissing_UnsetOnly(key) == key = "unset"

\* openrouter_client.py lines 26-27: api_key or os.getenv(...), "if not"
KeyMissing(key) == key = "unset" \/ key = "empty"

\* lines 69-75 and 105: the client is constructed (remote), the file is opened
OpenOutput ==
    /\ pc = "open"
    /\ IF provider = "openrouter" /\ KeyMissing(api_key)
         THEN /\ pc' = "exit1"
              /\ runlog' = Append(runlog, LogEntry("exit1"))
              /\ UNCHANGED <<exists, file, page_num, openrouter_model>>
         ELSE /\ pc' = "loop"
              /\ page_num' = 1
              /\ exists' = TRUE
              /\ file' = IF file_mode = "w" THEN <<>> ELSE file
              /\ openrouter_model' = IF provider = "openrouter"
                                        THEN get_openrouter_model(model)
                                        ELSE openrouter_model
              /\ UNCHANGED runlog
    /\ UNCHANGED <<start_arg, start_page, provider, api_key, completed_pages,
                   file_mode, response, calls, payloads, runs, file0, exists0,
                   read_ok>>
    /\ UNCHANGED jobVars
    /\ UNCHANGED histVars
    /\ UNCHANGED batchVars
    /\ UNCHANGED scanVars
    /\ UNCHANGED clientVars

SkipsPage_BelowStartOnly(p) == p < start_page

\* line 80 / 110
SkipsPage(p) == p < start_page \/ p \in completed_pages

\* lines 80-85 and 110-115
SkipPage ==
    /\ pc = "loop"
    /\ page_num <= num_pages
    /\ SkipsPage(page_num)
    /\ page_num' = page_num + 1
    /\ UNCHANGED <<exists, file, pc, start_arg, start_page, provider, api_key,
                   completed_pages, file_mode, response, calls, payloads, runs,
                   runlog, file0, exists0, read_ok, openrouter_model>>
    /\ UNCHANGED jobVars
    /\ UNCHANGED histVars
    /\ UNCHANGED batchVars
    /\ UNCHANGED scanVars
    /\ UNCHANGED clientVars

PagePrompt_PagesLeft(p, total) ==
    <<"prompt", NL, NL, "This is page ">> \o Digits(p)
        \o <<" of ">> \o Digits(total - p + 1) \o <<".">>

\* lines 88 and 122: f"{prompt}\n\nThis is page {page_num} of {len(...)}."
PagePrompt(p, total) ==
    <<"prompt", NL, NL, "This is page ">> \o Digits(p)
        \o <<" of ">> \o Digits(total) \o <<".">>

\* lines 89 and 118-125: the call for page p carries [image_bytes], the image
\* at index p - 1 of image_bytes_list, named here by its page
PageCall(p, total) == [images |-> <<p>>, prompt |-> PagePrompt(p, total)]

\* lines 87-89 and 117-125: the call returns text
CallSucceeds ==
    /\ pc = "loop"
    /\ page_num <= num_pages
    /\ ~SkipsPage(page_num)
    /\ calls' = Append(calls, page_num)
    /\ payloads' = Append(payloads, PageCall(page_num, num_pages))
    /\ response' = ResponseText(page_num)
    /\ pc' = "write"
    /\ UNCHANGED <<exists, file, start_arg, start_page, provider, api_key,
                   completed_pages, file_mode, page_num, runs, runlog, file0,
                   exists0, read_ok, openrouter_model>>
    /\ UNCHANGED jobVars
    /\ sent_ok' = Append(sent_ok, page_num)
    /\ UNCHANGED batchVars
    /\ UNCHANGED scanVars
    /\ UNCHANGED clientVars

\* the call raises: lines 99-102 end the process with status 1 (remote); the
\* exception leaves the function and the program (local)
CallFails ==
    /\ pc = "loop"
    /\ page_num <= num_pages
    /\ ~SkipsPage(page_num)
    /\ calls' = Append(calls, page_num)
    /\ payloads' = Append(payloads, PageCall(page_num, num_pages))
    /\ pc' = IF provider = "openrouter" THEN "exit1" ELSE "crashed"
    /\ runlog' = Append(runlog,
                   LogEntry(IF provider = "openrouter" THEN "exit1" ELSE "crashed"))
    /\ UNCHANGED <<exists, file, start_arg, start_page, provider, api_key,
                   completed_pages, file_mode, page_num, response, runs, file0,
                   exists0, read_ok, openrouter_model>>
    /\ UNCHANGED jobVars
    /\ UNCHANGED histVars
    /\ UNCHANGED batchVars
    /\ UNCHANGED scanVars
    /\ UNCHANGED clientVars

NeedsSeparator_Always(mode, p, sp) == TRUE

\* lines 93-94 and 129-130
NeedsSeparator(mode, p, sp) == mode = "a" \/ (mode = "w" /\ p > sp)

WritePage_Unflushed ==
    /\ pc = "write"
    /\ page_num' = page_num + 1
    /\ pc' = "loop"
    /\ UNCHANGED <<exists, file, start_arg, start_page, provider, api_key,
                   completed_pages, file_mode, response, calls, payloads, runs,
                   runlog, file0, exists0, read_ok, openrouter_model>>
    /\ UNCHANGED jobVars
    /\ UNCHANGED histVars
    /\ UNCHANGED batchVars
    /\ UNCHANGED scanVars
    /\ UNCHANGED clientVars

\* lines 93-96 and 129-132: separator, block, flush.  The two writes go to the
\* buffer of the file object; the separator and the block reach the file
\* together, at the flush or, for a block larger than the buffer, inside the
\* second write: the persisted file changes in one step.
WritePage ==
    /\ pc = "write"
    /\ file' = file
                 \o (IF NeedsSeparator(file_mode, page_num, start_page)
                       THEN Separator ELSE <<>>)
                 \o PageBlock(page_num, response)
    /\ page_num' = page_num + 1
    /\ pc' = "loop"
    /\ UNCHANGED <<exists, start_arg, start_page, provider, api_key,
                   completed_pages, file_mode, response, calls, payloads, runs,
                   runlog, file0, exists0, read_ok, openrouter_model>>
    /\ UNCHANGED jobVars
    /\ UNCHANGED histVars
    /\ UNCHANGED batchVars
    /\ UNCHANGED scanVars
    /\ UNCHANGED clientVars

\* the loop is exhausted, the file is closed and the function returns
FinishRun ==
    /\ pc = "loop"
    /\ page_num > num_pages
    /\ pc' = "done"
    /\ runlog' = Append(runlog, LogEntry("done"))
    /\ UNCHANGED <<exists, file, start_arg, start_page, provider, api_key,
                   completed_pages, file_mode, page_num, response, calls,
                   payloads, runs, file0, exists0, read_ok, openrouter_model>>
    /\ UNCHANGED jobVars
    /\ UNCHANGED histVars
    /\ UNCHANGED batchVars
    /\ UNCHANGED scanVars
    /\ UNCHANGED clientVars

\* the process is terminated from outside (section 5 of the design: the only
\* way a job is interrupted); everything written was flushed at line 96 / 132
Kill ==
    /\ pc \in {"open", "loop", "write"}
    /\ pc' = "killed"
    /\ runlog' = Append(runlog,
                   LogEntry(IF pc = "write" THEN "killed_in_flight" ELSE "killed"))
    /\ UNCHANGED <<exists, file, start_arg, start_page, provider, api_key,
                   completed_pages, file_mode, page_num, response, calls,
                   payloads, runs, file0, exists0, read_ok, openrouter_model>>
    /\ UNCHANGED jobVars
    /\ UNCHANGED histVars
    /\ UNCHANGED batchVars
    /\ UNCHANGED scanVars
    /\ UNCHANGED clientVars

Init ==
    /\ num_pages \in 0..MaxPages
    /\ resp \in [1..num_pages -> 0..num_pages]
    /\ Cardinality({p \in 1..num_pages : resp[p] # 0}) <= MaxMentions
    /\ origin \in InitialFiles(num_pages)
    /\ exists = origin[1]
    /\ file = origin[2]
    /\ pc = "idle"
    /\ start_arg = 1
    /\ start_page = 1
    /\ provider = "ollama"
    /\ api_key = "set"
    /\ completed_pages = {}
    /\ file_mode = "w"
    /\ page_num = 0
    /\ response = <<>>
    /\ calls = <<>>
    /\ payloads = <<>>
    /\ runs = 0
    /\ runlog = <<>>
    /\ file0 = <<>>
    /\ exists0 = FALSE
    /\ read_ok = TRUE
    /\ sent_ok = <<>>
    /\ all_responses = <<>>
    /\ extracted_text = <<>>
    /\ model = DefaultLocalModel
    /\ openrouter_model = NoModel
    /\ seed = <<>>
    /\ scanned = {}
    /\ ClientIdle

Next ==
    \/ \E sp \in 0..(num_pages + 1), prov \in {"ollama", "openrouter"},
          key \in ApiKeys, ok \in BOOLEAN :
          /\ (prov = "ollama" => key = "set")
          /\ StartRun(sp, prov, key, ok)
    \/ OpenOutput
    \/ SkipPage
    \/ CallSucceeds
    \/ CallFails
    \/ WritePage
    \/ FinishRun
    \/ Kill

Spec == Init /\ [][Next]_vars

\* one progressive run on each of the files a job may start from
NextOnce ==
    \/ \E sp \in 0..(num_pages + 1), prov \in {"ollama", "openrouter"},
          key \in ApiKeys, ok \in BOOLEAN :
          /\ (prov = "ollama" => key = "set")
          /\ pc = "idle"
          /\ StartRun(sp, prov, key, ok)
    \/ OpenOutput
    \/ SkipPage
    \/ CallSucceeds
    \/ CallFails
    \/ WritePage
    \/ FinishRun
    \/ Kill

SpecOnce == Init /\ [][NextOnce]_vars

-----------------------------------------------------------------------------
(* The page blocks of a document, as section 3 of the design lays it out:   *)
(* blocks "## Page <N>\n\n<content>" with a separator between them          *)

IsSeparatorAt(text, i) ==
    /\ i + Len(Separator) - 1 <= Len(text)
    /\ SubSeq(text, i, i + Len(Separator) - 1) = Separator

\* the first separator at or after position i, or 0
RECURSIVE NextSeparator(_, _)
NextSeparator(text, i) ==
    IF i > Len(text) THEN 0
    ELSE IF IsSeparatorAt(text, i) THEN i
    ELSE NextSeparator(text, i + 1)

\* the pieces of a text between its separators
RECURSIVE Chunks(_)
Chunks(text) ==
    LET j == NextSeparator(text, 1)
    IN  IF j = 0 THEN <<text>>
        ELSE <<SubSeq(text, 1, j - 1)>>
                 \o Chunks(SubSeq(text, j + Len(Separator), Len(text)))

IsBlock(chunk) ==
    /\ Len(chunk) >= 1
    /\ chunk[1] = HdrPrefix
    /\ LET e == DigitRunEnd(chunk, 2)
       IN  /\ e >= 2
           /\ e + 2 <= Len(chunk)
           /\ chunk[e + 1] = NL
           /\ chunk[e + 2] = NL

BlockOf(chunk) ==
    LET e == DigitRunEnd(chunk, 2)
    IN  [page |-> ParseInt(SubSeq(chunk, 2, e)),
         content |-> SubSeq(chunk, e + 3, Len(chunk))]

RECURSIVE BlocksOfChunks(_)
BlocksOfChunks(cs) ==
    IF cs = <<>> THEN <<>>
    ELSE (IF IsBlock(Head(cs)) THEN <<BlockOf(Head(cs))>> ELSE <<>>)
             \o BlocksOfChunks(Tail(cs))

\* the page blocks a text holds, in order
Blocks(text) == BlocksOfChunks(Chunks(text))

\* the blocks a run writes for the pages ps, given the backend's answers
WrittenBlocks(ps) ==
    [i \in 1..Len(ps) |-> [page |-> ps[i], content |-> ResponseText(ps[i])]]

Fresh(o) == o = <<FALSE, <<>>>> \/ o = <<TRUE, <<>>>>

-----------------------------------------------------------------------------
(* Claims about the progressive runner *)

\* C1 (as stated): a run from page 1 on a fresh output path is interrupted
\* right after some page was written and flushed, and a second run from page 1
\* completes: the final file's completed-page set is 1..N and every page block
\* is the one an uninterrupted run writes, i.e. the file is that run's file.
C1_IdempotentResume ==
    ( /\ num_pages >= 1
      /\ Fresh(origin)
      /\ Len(runlog) = 2
      /\ runlog[1] = [start |-> 1, end |-> "killed"]
      /\ runlog[2] = [start |-> 1, end |-> "done"]
      /\ pc = "done" )
    => ( /\ get_completed_pages(exists, file) = 1..num_pages
         /\ file = FullRunFile )

\* C2 (as stated): when a remote call fails, the process ends with status 1
\* right after that call, and the file holds the blocks it held before the run
\* plus the blocks of the pages that succeeded in this run, and nothing else.
C2_FailureKeepsCompletedPages ==
    ( /\ pc = "exit1"
      /\ provider = "openrouter"
      /\ Len(calls) > 0 )
    => ( /\ exists
         /\ Blocks(file)
              = Blocks(file0) \o WrittenBlocks(SubSeq(calls, 1, Len(calls) - 1)) )

\* C7: a start page beyond the last page makes no backend call and leaves the
\* output path as it was: same existence, same content.
C7_StartPageValidation ==
    (runs > 0 /\ start_arg > num_pages)
    => ( /\ pc = "returned"
         /\ calls = <<>>
         /\ exists = exists0
         /\ file = file0 )

C7_Witness ==
    /\ pc = "returned"
    /\ start_arg > num_pages
    /\ num_pages >= 1
    /\ provider = "openrouter"
    /\ exists
    /\ Len(file) > 0

\* C9: a completed run from page 1 on an output path with no completed pages
\* leaves exactly the blocks of pages 1..N in ascending order, each with the
\* backend's text, one separator between neighbours and none at either end.
C9_FreshRunDocument ==
    ( /\ pc = "done"
      /\ num_pages >= 1
      /\ start_arg = 1
      /\ completed_pages = {} )
    => ( /\ exists
         /\ file = FullRunFile
         /\ calls = [i \in 1..num_pages |-> i] )

C9_Witness ==
    /\ pc = "done"
    /\ num_pages >= 3
    /\ start_arg = 1
    /\ completed_pages = {}
    /\ exists0
    /\ file0 # <<>>
    /\ \E p \in 1..num_pages : resp[p] # 0

\* the document of an explicit resume after pages 1..k
ResumedFile(k) ==
    JoinBlocks([p \in 1..num_pages |->
                  PageBlock(p, IF p <= k THEN PlainText(p) ELSE ResponseText(p))])

\* C10: on a file seeded with the blocks of pages 1..k, a completed run with
\* start_page = k + 1 calls the backend for pages k+1..N exactly, and the final
\* file holds each of the N blocks once, joined by N - 1 separators.
C10_ExplicitResume ==
    \A k \in 1..(num_pages - 1) :
        ( /\ pc = "done"
          /\ exists0
          /\ file0 = SeedFile(k)
          /\ start_arg = k + 1 )
        => ( /\ calls = [i \in 1..(num_pages - k) |-> k + i]
             /\ file = ResumedFile(k)
             /\ Len(Blocks(file)) = num_pages
             /\ Len(Chunks(file)) = num_pages )

C10_Witness ==
    /\ pc = "done"
    /\ num_pages >= 3
    /\ exists0
    /\ file0 = SeedFile(1)
    /\ start_arg = 2
    /\ Len(calls) = num_pages - 1

\* the page numbers of the headers of a text's page blocks, in order
BlockPages(text) == [i \in 1..Len(Blocks(text)) |-> Blocks(text)[i].page]

NoDuplicates(ps) == \A i, j \in 1..Len(ps) : i # j => ps[i] # ps[j]

\* C11 (as stated): on an output path that started absent or empty, in every
\* state of every sequence of runs (any start pages, interruptions, failures,
\* failed scans), no page number is in the header of more than one page block
\* of the file.
C11_HeaderUniqueness ==
    Fresh(origin) => NoDuplicates(BlockPages(file))

\* the run has entered the page loop, or has ended after entering it
InRun == runs > 0 /\ page_num >= 1

\* the file as open() at line 75 / 105 left it
OpenedFile == IF file_mode = "w" THEN <<>> ELSE file0

\* the call for the last page of calls has not led to a write (yet)
LastCallUnwritten ==
    \/ pc = "write"
    \/ (pc \in {"exit1", "crashed"} /\ Len(calls) > 0)
    \/ (pc = "killed" /\ runlog[Len(runlog)].end = "killed_in_flight")

\* the pages whose block this run has written
WrittenPages ==
    IF LastCallUnwritten THEN SubSeq(calls, 1, Len(calls) - 1) ELSE calls

\* the pages the loop has dealt with, the one in hand included
PagesReached ==
    IF pc = "loop" \/ pc = "done" \/ (pc = "killed" /\ ~LastCallUnwritten)
      THEN page_num - 1 ELSE page_num

\* C12: in a run, a page below start_page or in the completed set computed at
\* the start gets no backend call and no write; every other page the loop has
\* reached got exactly one call, in page order; the file is the opened file
\* followed by the blocks of the called pages only.
C12_Skipping ==
    InRun =>
      ( /\ \A i \in 1..Len(calls) :
              ~(calls[i] < start_page \/ calls[i] \in completed_pages)
        /\ \A i, j \in 1..Len(calls) : i < j => calls[i] < calls[j]
        /\ \A q \in 1..PagesReached :
              (q < start_page \/ q \in completed_pages)
                  \/ (\E i \in 1..Len(calls) : calls[i] = q)
        /\ \A i \in 1..Len(calls) : calls[i] <= PagesReached
        /\ Blocks(file) = Blocks(OpenedFile) \o WrittenBlocks(WrittenPages) )

C12_Witness ==
    /\ pc = "done"
    /\ num_pages >= 3
    /\ \E q \in 1..num_pages : q < start_page /\ q \in completed_pages
    /\ \E q \in 1..num_pages : q >= start_page /\ q \in completed_pages
    /\ Len(calls) >= 1

\* the blocks the persisted file holds beyond those of the opened file
PersistedNewBlocks ==
    LET blocks == Blocks(file)
    IN  SubSeq(blocks, Len(Blocks(OpenedFile)) + 1, Len(blocks))

\* C13: whenever a backend call has been issued, the blocks of all pages
\* called before it are in the persisted file, in call order; so in every state,
\* the state after a kill included, at most the page in flight is missing.
C13_WriteBeforeProceed ==
    InRun =>
      LET persisted == PersistedNewBlocks
      IN  /\ Len(persisted) >= Len(calls) - 1
          /\ \A i \in 1..(Len(calls) - 1) :
                persisted[i]
                  = [page |-> calls[i], content |-> ResponseText(calls[i])]

C13_Witness ==
    /\ pc = "killed"
    /\ runlog[Len(runlog)].end = "killed_in_flight"
    /\ Len(calls) >= 2
    /\ Len(PersistedNewBlocks) = Len(calls) - 1
    /\ file0 # <<>>

\* C14: a remote run that gets to construct its client without a credential
\* (variable unset or empty) makes no backend call, ends with exit status 1 (or
\* is killed before that), and leaves the output path as it was: not created,
\* not truncated, not appended to.
C14_MissingCredential ==
    ( /\ runs > 0
      /\ provider = "openrouter"
      /\ api_key \in {"unset", "empty"}
      /\ start_page <= num_pages )
    => ( /\ pc \in {"open", "exit1", "killed"}
         /\ calls = <<>>
         /\ page_num = 0
         /\ exists = exists0
         /\ file = file0 )

C14_Witness ==
    /\ pc = "exit1"
    /\ provider = "openrouter"
    /\ api_key = "empty"
    /\ start_arg = 1
    /\ num_pages >= 1
    /\ exists0
    /\ file0 = SeedFile(1)

\* the exit status of the program (__main__, lines 202-207) once the run has
\* ended: after a return of the function, line 207 prints the completion
\* message and the program ends normally; sys.exit(1) at line 102 and an
\* uncaught exception give 1; -1 stands for a process still running or killed
ExitStatus(at) ==
    CASE at \in {"returned", "done"} -> 0
      [] at \in {"exit1", "crashed"} -> 1
      [] OTHER -> -1

\* C15 (as stated): a start page beyond the last page makes no backend call and
\* the program ends with a non-zero exit status.
C15_InvalidStartPageExit ==
    (runs > 0 /\ start_page > num_pages /\ num_pages >= 1)
    => ( /\ calls = <<>>
         /\ page_num = 0
         /\ ExitStatus(pc) # 0 )

\* the scan of the current run met a file that exists and could not be read
\* or decoded
ScanFailed == exists0 /\ (~read_ok \/ ~Decodable(file0))

\* C18: when the scan of an existing file fails, the completed set is empty and
\* the run goes on as a run with no completed page does: the mode depends on
\* start_page alone, nothing but an invalid start page, a missing key or a
\* failing call ends it, and a run that completes has called every page from
\* start_page on.
C18_ScanNeverAborts ==
    (runs > 0 /\ ScanFailed)
    => ( /\ completed_pages = {}
         /\ file_mode = (IF start_arg > 1 THEN "a" ELSE "w")
         /\ pc \in {"open", "loop", "write", "done", "returned", "exit1",
                     "crashed", "killed"}
         /\ pc = "returned" => start_page > num_pages
         /\ pc = "crashed" => Len(calls) > 0
         /\ pc = "exit1" => (Len(calls) > 0 \/ api_key \in {"unset", "empty"})
         /\ pc = "done"
               => calls = [i \in 1..(num_pages - start_page + 1)
                             |-> start_page + i - 1] )

C18_Witness ==
    /\ pc = "done"
    /\ exists0
    /\ read_ok
    /\ ~Decodable(file0)
    /\ start_arg = 1
    /\ num_pages >= 2
    /\ Len(calls) = num_pages

\* the blocks this run has written, as text
WrittenText ==
    JoinBlocks([i \in 1..Len(WrittenPages) |->
                  PageBlock(WrittenPages[i], ResponseText(WrittenPages[i]))])

\* C21 (as stated): once a run has written a block, the file is the opened file,
\* then one separator if and only if the opened file is non-empty, then the
\* blocks written, one separator between neighbours: an empty existing file
\* opened for appending gets no leading separator.
C21_SeparatorRule ==
    (InRun /\ Len(WrittenPages) >= 1)
    => file = OpenedFile
                \o (IF OpenedFile = <<>> THEN <<>> ELSE Separator)
                \o WrittenText

\* C22: a run opens the output for appending exactly when the file existed
\* and (the caller's start_page > 1 or the completed set is non-empty); before
\* the open the file is untouched, an append run keeps the former text as a
\* prefix of the file in every later state, and any other run truncates it.
C22_AppendVersusOverwrite ==
    runs > 0 =>
      ( /\ file_mode = "a"
             <=> (exists0 /\ (start_arg > 1 \/ completed_pages # {}))
        /\ ~InRun => (file = file0 /\ exists = exists0)
        /\ (InRun /\ file_mode = "a")
             => ( /\ Len(file) >= Len(file0)
                  /\ SubSeq(file, 1, Len(file0)) = file0 )
        /\ (InRun /\ file_mode # "a" /\ Len(WrittenPages) = 0)
             => file = <<>> )

C22_Witness ==
    /\ pc = "done"
    /\ file_mode = "a"
    /\ file0 = Notes
    /\ completed_pages = {}
    /\ start_arg = 2
    /\ Len(calls) >= 2
    /\ Len(file) > Len(file0)

\* a text that is whole page blocks joined by separators and nothing else
BlockAligned(text) ==
    text = JoinBlocks([i \in 1..Len(Blocks(text)) |->
                         PageBlock(Blocks(text)[i].page, Blocks(text)[i].content)])

\* C23 (as stated): on an output path that was absent or held whole page
\* blocks joined by separators, the persisted file is whole page blocks joined
\* by separators in every state of a run.
C23_BlockAlignedPersistence ==
    (runs > 0 /\ (~exists0 \/ BlockAligned(file0))) => BlockAligned(file)

\* the last Len(t) tokens of s are t
EndsWith(s, t) ==
    /\ Len(s) >= Len(t)
    /\ SubSeq(s, Len(s) - Len(t) + 1, Len(s)) = t

StrictlyAscending(ps) == \A i, j \in 1..Len(ps) : i < j => ps[i] < ps[j]

\* C27: a progressive run issues its backend calls in strictly ascending page
\* order; a call is issued only when every earlier call has returned and its
\* block is in the file, so at most one call is in flight; each call carries
\* exactly one image, that of its page P, and a prompt ending with "This is
\* page P of TOTAL." where TOTAL is the number of pages of the input; the
\* headers of the blocks the run has written are in strictly ascending order.
C27_SequentialOrderedDispatch ==
    InRun =>
      LET written == PersistedNewBlocks
      IN  /\ Len(payloads) = Len(calls)
          /\ StrictlyAscending(calls)
          /\ pc = "loop" => Len(written) = Len(calls)
          /\ Len(calls) - Len(written) \in {0, 1}
          /\ \A i \in 1..Len(calls) :
                /\ payloads[i].images = <<calls[i]>>
                /\ EndsWith(payloads[i].prompt,
                            <<"This is page ">> \o Digits(calls[i])
                                \o <<" of ">> \o Digits(num_pages) \o <<".">>)
          /\ StrictlyAscending([i \in 1..Len(written) |-> written[i].page])

C27_Witness ==
    /\ pc = "done"
    /\ num_pages >= 3
    /\ start_page = 2
    /\ file_mode = "a"
    /\ Len(calls) >= 2
    /\ Len(PersistedNewBlocks) = Len(calls)

-----------------------------------------------------------------------------
(* Batch mode: query_gemma3_with_images and the main program that writes   *)
(* its result (pdf2md_poppler.py for any number of pages; pdf2md.py takes  *)
(* the same path for a single page)                                        *)

\* the text the local backend returns for all the images in one answer
RECURSIVE AllPagesText(_)
AllPagesText(n) ==
    IF n = 0 THEN <<>>
    ELSE IF n = 1 THEN ResponseText(1)
    ELSE AllPagesText(n - 1) \o <<NL>> \o ResponseText(n)

LocalBatchCall_FirstImageOnly(total) ==
    [images |-> <<1>>, prompt |-> <<"prompt">>]

\* lines 159-166: ollama.chat with "content": prompt, "images": image_bytes_list
LocalBatchCall(total) ==
    [images |-> [p \in 1..total |-> p], prompt |-> <<"prompt">>]

\* "if images:" holds and query_gemma3_with_images is entered; with the remote
\* backend the client is constructed and the model id computed (lines 139-140),
\* a missing credential raising into the handler of lines 153-156
StartBatch(prov, key) ==
    /\ pc \in Terminal
    /\ runs < MaxRuns
    /\ num_pages >= 1
    /\ provider' = prov
    /\ api_key' = key
    /\ runs' = runs + 1
    /\ file0' = file
    /\ exists0' = exists
    /\ calls' = <<>>
    /\ payloads' = <<>>
    /\ all_responses' = <<>>
    /\ extracted_text' = <<>>
    /\ IF prov = "openrouter"
         THEN IF KeyMissing(key)
                THEN /\ pc' = "exit1"
                     /\ UNCHANGED <<page_num, openrouter_model>>
                ELSE /\ pc' = "batch"
                     /\ page_num' = 1
                     /\ openrouter_model' = get_openrouter_model(model)
         ELSE /\ pc' = "batch_local"
              /\ UNCHANGED <<page_num, openrouter_model>>
    /\ UNCHANGED <<exists, file, start_arg, start_page, completed_pages,
                   file_mode, response, runlog, read_ok>>
    /\ UNCHANGED jobVars
    /\ UNCHANGED histVars
    /\ UNCHANGED scanVars
    /\ UNCHANGED clientVars

\* the else branch of "if images:": nothing is called and nothing is written
BatchNoImages ==
    /\ pc = "idle"
    /\ num_pages = 0
    /\ pc' = "returned"
    /\ runs' = runs + 1
    /\ file0' = file
    /\ exists0' = exists
    /\ UNCHANGED <<exists, file, start_arg, start_page, provider, api_key,
                   completed_pages, file_mode, page_num, response, calls,
                   payloads, runlog, read_ok, openrouter_model>>
    /\ UNCHANGED jobVars
    /\ UNCHANGED histVars
    /\ UNCHANGED batchVars
    /\ UNCHANGED scanVars
    /\ UNCHANGED clientVars

\* lines 144-148: the call for page i + 1 returns and its block is collected
BatchCallSucceeds ==
    /\ pc = "batch"
    /\ page_num <= num_pages
    /\ calls' = Append(calls, page_num)
    /\ payloads' = Append(payloads, PageCall(page_num, num_pages))
    /\ response' = ResponseText(page_num)
    /\ all_responses' = Append(all_responses,
                               PageBlock(page_num, ResponseText(page_num)))
    /\ page_num' = page_num + 1
    /\ UNCHANGED <<exists, file, pc, start_arg, start_page, provider, api_key,
                   completed_pages, file_mode, runs, runlog, file0, exists0,
                   read_ok, openrouter_model, extracted_text>>
    /\ UNCHANGED jobVars
    /\ sent_ok' = Append(sent_ok, page_num)
    /\ UNCHANGED scanVars
    /\ UNCHANGED clientVars

BatchCallFails_SkipsPage ==
    /\ pc = "batch"
    /\ page_num <= num_pages
    /\ calls' = Append(calls, page_num)
    /\ payloads' = Append(payloads, PageCall(page_num, num_pages))
    /\ page_num' = page_num + 1
    /\ UNCHANGED <<exists, file, pc, start_arg, start_page, provider, api_key,
                   completed_pages, file_mode, response, runs, runlog, file0,
                   exists0, read_ok, openrouter_model>>
    /\ UNCHANGED jobVars
    /\ UNCHANGED histVars
    /\ UNCHANGED batchVars
    /\ UNCHANGED scanVars
    /\ UNCHANGED clientVars

\* lines 147 and 153-156: the call raises, the handler prints and calls
\* sys.exit(1); all_responses is never returned
BatchCallFails ==
    /\ pc = "batch"
    /\ page_num <= num_pages
    /\ calls' = Append(calls, page_num)
    /\ payloads' = Append(payloads, PageCall(page_num, num_pages))
    /\ pc' = "exit1"
    /\ UNCHANGED <<exists, file, start_arg, start_page, provider, api_key,
                   completed_pages, file_mode, page_num, response, runs,
                   runlog, file0, exists0, read_ok, openrouter_model>>
    /\ UNCHANGED jobVars
    /\ UNCHANGED histVars
    /\ UNCHANGED batchVars
    /\ UNCHANGED scanVars
    /\ UNCHANGED clientVars

BatchJoin_LastBlockOnly ==
    /\ pc = "batch"
    /\ page_num > num_pages
    /\ extracted_text' = (IF all_responses = <<>> THEN <<>>
                           ELSE all_responses[Len(all_responses)])
    /\ pc' = "batch_returned"
    /\ UNCHANGED all_responses
    /\ UNCHANGED <<exists, file>>
    /\ UNCHANGED runVars
    /\ UNCHANGED jobVars
    /\ UNCHANGED histVars
    /\ UNCHANGED scanVars
    /\ UNCHANGED clientVars

\* line 151: return "\n\n---\n\n".join(all_responses)
BatchJoin ==
    /\ pc = "batch"
    /\ page_num > num_pages
    /\ extracted_text' = JoinBlocks(all_responses)
    /\ pc' = "batch_returned"
    /\ UNCHANGED all_responses
    /\ UNCHANGED <<exists, file>>
    /\ UNCHANGED runVars
    /\ UNCHANGED jobVars
    /\ UNCHANGED histVars
    /\ UNCHANGED scanVars
    /\ UNCHANGED clientVars

\* lines 159-167: the one local call returns
LocalCallSucceeds ==
    /\ pc = "batch_local"
    /\ payloads' = Append(payloads, LocalBatchCall(num_pages))
    /\ extracted_text' = AllPagesText(num_pages)
    /\ pc' = "batch_returned"
    /\ UNCHANGED all_responses
    /\ UNCHANGED <<exists, file, start_arg, start_page, provider, api_key,
                   completed_pages, file_mode, page_num, response, calls,
                   runs, runlog, file0, exists0, read_ok, openrouter_model>>
    /\ UNCHANGED jobVars
    /\ UNCHANGED histVars
    /\ UNCHANGED scanVars
    /\ UNCHANGED clientVars

\* lines 159-167: the local call raises; nothing catches it
LocalCallFails ==
    /\ pc = "batch_local"
    /\ payloads' = Append(payloads, LocalBatchCall(num_pages))
    /\ pc' = "crashed"
    /\ UNCHANGED <<exists, file, start_arg, start_page, provider, api_key,
                   completed_pages, file_mode, page_num, response, calls,
                   runs, runlog, file0, exists0, read_ok, openrouter_model>>
    /\ UNCHANGED jobVars
    /\ UNCHANGED histVars
    /\ UNCHANGED batchVars
    /\ UNCHANGED scanVars
    /\ UNCHANGED clientVars

\* open(args.output, "w", encoding="utf-8")
BatchOpenOutput ==
    /\ pc = "batch_returned"
    /\ exists' = TRUE
    /\ file' = <<>>
    /\ pc' = "batch_opened"
    /\ UNCHANGED runVars
    /\ UNCHANGED jobVars
    /\ UNCHANGED histVars
    /\ UNCHANGED batchVars
    /\ UNCHANGED scanVars
    /\ UNCHANGED clientVars

\* md_file.write(extracted_text) and the close that ends the with block
BatchWriteOutput ==
    /\ pc = "batch_opened"
    /\ file' = file \o extracted_text
    /\ pc' = "done"
    /\ UNCHANGED exists
    /\ UNCHANGED runVars
    /\ UNCHANGED jobVars
    /\ UNCHANGED histVars
    /\ UNCHANGED batchVars
    /\ UNCHANGED scanVars
    /\ UNCHANGED clientVars

NextBatch ==
    \/ \E prov \in {"ollama", "openrouter"}, key \in ApiKeys :
          /\ (prov = "ollama" => key = "set")
          /\ pc = "idle"
          /\ StartBatch(prov, key)
    \/ BatchNoImages
    \/ BatchCallSucceeds
    \/ BatchCallFails
    \/ BatchJoin
    \/ LocalCallSucceeds
    \/ LocalCallFails
    \/ BatchOpenOutput
    \/ BatchWriteOutput

\* one batch run on each of the files a job may start from
SpecBatch == Init /\ [][NextBatch]_vars

\* query_gemma3_with_images has returned its text
BatchReturned == pc \in {"batch_returned", "batch_opened", "done"}

\* C28: batch mode on N page images makes exactly N remote calls, one per page
\* in ascending order with one image each, when the backend is remote, and
\* exactly one local call carrying all N images when the backend is local; the
\* output file is untouched until all calls have returned, and is then written
\* once with the whole text.
C28_BatchCallPattern ==
    (runs > 0 /\ num_pages >= 1) =>
      ( /\ provider = "openrouter" =>
              /\ Len(payloads) = Len(calls)
              /\ calls = [i \in 1..Len(calls) |-> i]
              /\ Len(calls) <= num_pages
              /\ \A i \in 1..Len(calls) : payloads[i].images = <<i>>
              /\ BatchReturned =>
                    /\ Len(calls) = num_pages
                    /\ extracted_text = FullRunFile
        /\ provider = "ollama" =>
              /\ calls = <<>>
              /\ Len(payloads) <= 1
              /\ \A i \in 1..Len(payloads) :
                    payloads[i].images = [p \in 1..num_pages |-> p]
              /\ BatchReturned => Len(payloads) = 1
        /\ pc \notin {"batch_opened", "done"} =>
              (file = file0 /\ exists = exists0)
        /\ pc = "batch_opened" => (file = <<>> /\ exists)
        /\ pc = "done" => (file = extracted_text /\ exists) )

C28_Witness ==
    /\ pc = "done"
    /\ provider = "ollama"
    /\ num_pages >= 2
    /\ Len(payloads) = 1
    /\ file0 = Notes
    /\ file = AllPagesText(num_pages)

\* C29: in batch mode with the remote backend, once the call for a page has
\* failed the process has ended with a non-zero exit status, the blocks of the
\* pages that had succeeded are in no returned text and in no file, and the
\* output file is neither created nor modified.
C29_BatchAllOrNothing ==
    (runs > 0 /\ provider = "openrouter" /\ Len(calls) > Len(all_responses))
    => ( /\ pc = "exit1"
         /\ ExitStatus(pc) # 0
         /\ extracted_text = <<>>
         /\ file = file0
         /\ exists = exists0 )

C29_Witness ==
    /\ pc = "exit1"
    /\ provider = "openrouter"
    /\ Len(calls) >= 2
    /\ Len(all_responses) = Len(calls) - 1
    /\ file0 = Notes
    /\ file = Notes

-----------------------------------------------------------------------------
(* Runs started below page 1 *)

\* the start pages start at 1 - MaxBelow
StartPagesUpToOne == (1 - MaxBelow)..1

\* one progressive run with a start page of at most 1
NextClamp ==
    \/ \E sp \in StartPagesUpToOne, prov \in {"ollama", "openrouter"},
          key \in ApiKeys, ok \in BOOLEAN :
          /\ (prov = "ollama" => key = "set")
          /\ pc = "idle"
          /\ StartRun(sp, prov, key, ok)
    \/ OpenOutput
    \/ SkipPage
    \/ CallSucceeds
    \/ CallFails
    \/ WritePage
    \/ FinishRun
    \/ Kill

SpecClamp == Init /\ [][NextClamp]_vars

\* the pages up to reached that a run with start page sp and the completed set
\* calls the backend for, in loop order (line 80 / 110)
CalledPages(sp, completed, reached) ==
    SelectSeq([q \in 1..reached |-> q],
              LAMBDA q : ~(q < sp \/ q \in completed))

\* what lines 93-95 / 129-131 add to the file for the pages ps, in a run of
\* the given mode and start page
RECURSIVE TextWritten(_, _, _)
TextWritten(mode, sp, ps) ==
    IF ps = <<>> THEN <<>>
    ELSE (IF NeedsSeparator(mode, Head(ps), sp) THEN Separator ELSE <<>>)
           \o PageBlock(Head(ps), ResponseText(Head(ps)))
           \o TextWritten(mode, sp, Tail(ps))

\* C30: a progressive run with start_page < 1 is, in every state, what the
\* code yields for start_page = 1 on the same file, pages and backend (a run
\* started with 1 meets the same description): the same file-open mode, the
\* same validation result, the same sequence of backend calls and the same
\* bytes in the file.
C30_StartPageClamping ==
    (runs > 0 /\ start_arg <= 1) =>
      LET completed == ScanOutput(exists0, read_ok, file0)
          mode == FileMode(1, completed, exists0)
          opened == IF mode = "w" THEN <<>> ELSE file0
          called == CalledPages(1, completed, PagesReached)
          written == IF LastCallUnwritten
                       THEN SubSeq(called, 1, Len(called) - 1) ELSE called
      IN  /\ completed_pages = completed
          /\ file_mode = mode
          /\ start_page = 1
          /\ pc = "returned" <=> StartPageTooLarge(1, num_pages)
          /\ ~InRun => (calls = <<>> /\ file = file0 /\ exists = exists0)
          /\ InRun => /\ calls = called
                      /\ payloads = [i \in 1..Len(called) |->
                                        PageCall(called[i], num_pages)]
                      /\ file = opened \o TextWritten(mode, 1, written)
                      /\ exists

C30_Witness ==
    /\ start_arg < 1
    /\ pc = "done"
    /\ file_mode = "a"
    /\ completed_pages # {}
    /\ Len(calls) >= 2
    /\ provider = "openrouter"

\* C35 (as stated): on an output path that started absent or empty, whatever
\* text the backend returns, a page number is in get_completed_pages of the
\* file the runner has written only if the runner wrote a block for that page,
\* after a successful call for it.
C35_NoFalseCompletion ==
    (Fresh(origin) /\ InRun)
    => get_completed_pages(exists, file)
         \subseteq {WrittenPages[i] : i \in 1..Len(WrittenPages)}

\* s begins with t
IsPrefix(t, s) == Len(t) <= Len(s) /\ SubSeq(s, 1, Len(t)) = t

\* C36 (as stated): when the output file holds at least one page block before
\* a progressive run starts, those blocks are in the file, unmodified, in every
\* state during and after the run, whatever the start page and the backend's
\* outcomes, and also when the scan of the existing file fails with a read or
\* decode error.
C36_NoLossOfPriorWork ==
    (runs > 0 /\ exists0 /\ Len(Blocks(file0)) >= 1)
    => ( /\ exists
         /\ IsPrefix(file0, file)
         /\ IsPrefix(Blocks(file0), Blocks(file)) )

\* the file holds a block for every page of the job
HoldsEveryPage(text) ==
    \A p \in 1..num_pages :
        \E i \in 1..Len(Blocks(text)) : Blocks(text)[i].page = p

\* C33 (as stated): when the output file already holds a block for every page
\* 1..N, a progressive run with any start_page in 1..N makes no backend call
\* and leaves the output file unchanged.
C33_FinishedJobRerun ==
    ( /\ runs > 0
      /\ num_pages >= 1
      /\ exists0
      /\ HoldsEveryPage(file0)
      /\ start_arg \in 1..num_pages )
    => ( /\ calls = <<>>
         /\ file = file0
         /\ exists )

-----------------------------------------------------------------------------
(* A progressive run from page 1, then batch mode on the same pages, both   *)
(* with the remote backend                                                 *)

NextAgree ==
    \/ \E key \in ApiKeys :
          /\ pc = "idle"
          /\ StartRun(1, "openrouter", key, TRUE)
    \/ OpenOutput
    \/ SkipPage
    \/ CallSucceeds
    \/ CallFails
    \/ WritePage
    \/ FinishRun
    \/ Kill
    \/ \E key \in ApiKeys :
          /\ pc = "done"
          /\ StartBatch("openrouter", key)
    \/ BatchCallSucceeds
    \/ BatchCallFails
    \/ BatchJoin

SpecAgree == Init /\ [][NextAgree]_vars

\* C34: with the remote backend and the same successful responses, the file a
\* fresh progressive run (start_page = 1, no existing output) has written is
\* identical to the document batch mode returns for the same pages: the same
\* "## Page i" blocks joined by the same separator.
C34_ProgressiveAgreesWithBatch ==
    ( /\ origin = <<FALSE, <<>>>>
      /\ num_pages >= 1
      /\ runlog = <<[start |-> 1, end |-> "done"]>>
      /\ runs = 2
      /\ pc = "batch_returned" )
    => ( /\ extracted_text = file0
         /\ file = file0
         /\ Blocks(extracted_text)
              = [p \in 1..num_pages |->
                   [page |-> p, content |-> ResponseText(p)]] )

C34_Witness ==
    /\ origin = <<FALSE, <<>>>>
    /\ num_pages >= 3
    /\ \E p \in 1..num_pages : resp[p] # 0
    /\ runlog = <<[start |-> 1, end |-> "done"]>>
    /\ runs = 2
    /\ pc = "batch_returned"
    /\ all_responses # <<>>
    /\ extracted_text = file0

\* every run so far started from page 1; the last one ran to completion and
\* each one before it was interrupted between two pages or ended on a failure
InterruptedThenCompleted ==
    /\ pc = "done"
    /\ Len(runlog) = runs
    /\ \A i \in 1..Len(runlog) : runlog[i].start = 1
    /\ \A i \in 1..(Len(runlog) - 1) :
          runlog[i].end \in {"killed", "exit1", "crashed"}
    /\ runlog[Len(runlog)].end = "done"

\* C37 (as stated): on an output path that started absent or empty, after any
\* sequence of runs from page 1, each interrupted or failed at a page boundary,
\* and one run in which every call succeeds, the file holds each page 1..N
\* exactly once, no page was sent to the backend successfully more than once
\* over all the runs, and the file is the one an uninterrupted run writes.
C37_ResumeConverges ==
    (Fresh(origin) /\ num_pages >= 1 /\ InterruptedThenCompleted)
    => ( /\ BlockPages(file) = [p \in 1..num_pages |-> p]
         /\ NoDuplicates(sent_ok)
         /\ file = FullRunFile )

-----------------------------------------------------------------------------
(* The resume scan on files built block by block *)

SeedBlocks ==
    [page : 1..MaxSeedPage, mention : 0..MaxSeedPage]

SeedPages(sd) == {sd[i].page : i \in 1..Len(sd)}

\* a file made of the given blocks, in the given order, joined by separators
BuiltFile(sd) ==
    JoinBlocks([i \in 1..Len(sd) |->
                  PageBlock(sd[i].page, TextMentioning(sd[i].page, sd[i].mention))])

SeedLists == UNION {[1..n -> SeedBlocks] : n \in 0..MaxSeedLen}

BuildFile ==
    /\ pc = "idle"
    /\ ~exists
    /\ \E sd \in SeedLists :
          /\ seed' = sd
          /\ file' = BuiltFile(sd)
    /\ exists' = TRUE
    /\ pc' = "built"
    /\ UNCHANGED scanned
    /\ UNCHANGED jobVars
    /\ UNCHANGED histVars
    /\ UNCHANGED batchVars
    /\ UNCHANGED runVars
    /\ UNCHANGED clientVars

\* get_completed_pages(output_file), on a built file or on a missing path
ScanFile ==
    /\ pc \in {"idle", "built"}
    /\ scanned' = get_completed_pages(exists, file)
    /\ pc' = "scanned"
    /\ UNCHANGED <<exists, file, seed>>
    /\ UNCHANGED jobVars
    /\ UNCHANGED histVars
    /\ UNCHANGED batchVars
    /\ UNCHANGED runVars
    /\ UNCHANGED clientVars

InitScan ==
    /\ RunnerIdle
    /\ ClientIdle

NextScan ==
    \/ BuildFile
    \/ ScanFile

SpecScan == InitScan /\ [][NextScan]_vars

\* C8 (as stated): on a file made of page blocks for a set S of pages, in any
\* order, joined by separators, the scan returns exactly S; on a missing path
\* it returns the empty set.
C8_ResumeParsing ==
    pc = "scanned" => scanned = (IF exists THEN SeedPages(seed) ELSE {})

\* the same with block contents that hold no header-like line
C8_PlainContents ==
    (pc = "scanned" /\ \A i \in 1..Len(seed) : seed[i].mention = 0)
    => scanned = (IF exists THEN SeedPages(seed) ELSE {})

-----------------------------------------------------------------------------
(* OpenRouterClient.  One tick of the clock is a tenth of a second. *)

TicksPerSecond == 10
JitterMin == 1           \* random.uniform(0.1, 0.5), in ticks
JitterMax == 5

\* what requests.post may come back with.  body is the shape of the JSON body;
\* mentions429 says whether the text of the exception this response leads to
\* (the HTTPError of raise_for_status, built from the status line; the JSON
\* decoding error; the transport error) contains "429".
Bodies ==
    {"content",         \* {"choices": [{"message": {"content": ...}}]}
     "no_choices",      \* an object without "choices", "error" absent or an object
     "empty_choices",   \* {"choices": []}
     "no_message",      \* {"choices": [{}]}
     "no_content",      \* {"choices": [{"message": {}}]}
     "error_string",    \* an object whose "error" is not an object
     "not_object",      \* JSON that is no object
     "not_json"}        \* no JSON at all

\* the text of the exception matters for a body that is no JSON, for an error
\* status and for a transport error only
HttpResponses ==
    [kind : {"http"}, status : {"ok", "429"}, body : Bodies \ {"not_json"},
     mentions429 : {FALSE}]
        \cup [kind : {"http"}, status : {"ok", "429"}, body : {"not_json"},
              mentions429 : BOOLEAN]
        \cup [kind : {"http"}, status : {"error"},
              body : {"no_choices", "not_json"}, mentions429 : BOOLEAN]

TransportErrors ==
    [kind : {"transport"}, status : {"none"}, body : {"none"},
     mentions429 : BOOLEAN]

Responses == HttpResponses \cup TransportErrors

OnRequestException_Unbounded(r, att, maxr) ==
    IF r.mentions429 THEN "retry" ELSE "request_failed"

\* lines 137-145: a requests.exceptions.RequestException was raised
OnRequestException(r, att, maxr) ==
    IF att < maxr /\ r.mentions429 THEN "retry" ELSE "request_failed"

\* response.json(): a body that is no JSON raises requests' JSONDecodeError,
\* a RequestException
OnJson(r, att, maxr, parsed) ==
    IF r.body = "not_json" THEN OnRequestException(r, att, maxr) ELSE parsed

\* lines 124-128: the notice printed before the backoff sleep reads
\* result.get('error', {}).get('message', ...)
OnRateLimitNotice(r, att, maxr) ==
    OnJson(r, att, maxr,
           IF r.body \in {"not_object", "error_string"} THEN "uncaught"
           ELSE "retry")

OnStatus429_AlwaysRetry(r, att, maxr) == OnRateLimitNotice(r, att, maxr)

\* lines 120-130
OnStatus429(r, att, maxr) ==
    IF att < maxr THEN OnRateLimitNotice(r, att, maxr)
    ELSE "rate_limit_exceeded"

\* lines 134-135 and 146-147: result["choices"][0]["message"]["content"]
OnSuccessBody(r, att, maxr) ==
    OnJson(r, att, maxr,
           CASE r.body = "content" -> "text"
             [] r.body \in {"no_choices", "no_message", "no_content",
                            "error_string"} -> "malformed"
             [] OTHER -> "uncaught")

\* lines 112-147: what one iteration of the retry loop does with a response
Handle(r, att, maxr) ==
    CASE r.kind = "transport" -> OnRequestException(r, att, maxr)
      [] r.status = "429" -> OnStatus429(r, att, maxr)
      [] r.status = "error" -> OnRequestException(r, att, maxr)
      [] OTHER -> OnSuccessBody(r, att, maxr)

RECURSIVE Power(_, _)
Power(b, e) == IF e = 0 THEN 1 ELSE b * Power(b, e - 1)

\* lines 123 and 140: (backoff_factor ** attempt) + random.uniform(0.1, 0.5)
BackoffDelay_Linear(factor, att, jitter) == TicksPerSecond * factor * att + jitter

BackoffDelay(factor, att, jitter) == TicksPerSecond * Power(factor, att) + jitter

\* lines 51-54
SleepTime(current_time, last, delay) ==
    IF current_time - last < delay THEN delay - (current_time - last) ELSE 0

StampedTime_BeforeWait(current_time, woke) == current_time

\* line 58 stamps the time read after the wait
StampedTime(current_time, woke) == woke

\* lines 48-58, _wait_for_rate_limit, entered lag ticks after the last event;
\* over: ticks time.sleep lasts beyond its argument
AwaitTurn(lag, over) ==
    LET current_time == now + lag
        sleep_time == SleepTime(current_time, last_request_time, request_delay)
        woke == current_time + sleep_time + over
    IN  /\ (sleep_time = 0 => over = 0)
        /\ now' = woke
        /\ last_request_time' = StampedTime(current_time, woke)
        /\ prev_turn' = cur_turn
        /\ cur_turn' = woke
        /\ waited' = (sleep_time > 0)

\* lines 78-107: chat_with_images is called, awaits its turn and builds the
\* payload
BeginSend ==
    /\ cpc = "ready"
    /\ sends < MaxSends
    /\ \E lag \in 0..MaxLag, over \in 0..MaxLag : AwaitTurn(lag, over)
    /\ sends' = sends + 1
    /\ attempt' = 0
    /\ http_calls' = 0
    /\ sleeps' = 0
    /\ all_429' = TRUE
    /\ outcome' = "pending"
    /\ retries_reported' = -1
    /\ last_response' = NoResponse
    /\ backoff_delay' = 0
    /\ cpc' = "post"
    /\ UNCHANGED <<request_delay, max_retries, backoff_factor, prev_sent, cur_sent>>
    /\ UNCHANGED jobVars
    /\ UNCHANGED histVars
    /\ UNCHANGED batchVars
    /\ UNCHANGED <<exists, file, pc>>
    /\ UNCHANGED runVars
    /\ UNCHANGED scanVars

\* lines 110-147: one requests.post, answered with r after latency ticks, and
\* what the loop body makes of it
PostAnswered(r, latency, jitter) ==
    /\ cpc = "post"
    /\ LET o == Handle(r, attempt, max_retries)
       IN  /\ (o # "retry" => jitter = JitterMin)
           /\ last_response' = r
           /\ all_429' = (all_429 /\ r.kind = "http" /\ r.status = "429")
           /\ now' = now + latency
           /\ IF o = "retry"
                THEN /\ cpc' = "backoff"
                     /\ backoff_delay' = BackoffDelay(backoff_factor, attempt, jitter)
                     /\ UNCHANGED <<outcome, retries_reported>>
                ELSE /\ cpc' = "ready"
                     /\ outcome' = o
                     /\ retries_reported' =
                          (IF o = "rate_limit_exceeded" THEN max_retries ELSE -1)
                     /\ UNCHANGED backoff_delay
    /\ http_calls' = http_calls + 1
    /\ prev_sent' = cur_sent
    /\ cur_sent' = now
    /\ UNCHANGED <<request_delay, max_retries, backoff_factor, last_request_time,
                   attempt, sends, sleeps, prev_turn, cur_turn, waited>>
    /\ UNCHANGED jobVars
    /\ UNCHANGED histVars
    /\ UNCHANGED batchVars
    /\ UNCHANGED <<exists, file, pc>>
    /\ UNCHANGED runVars
    /\ UNCHANGED scanVars

HttpPost ==
    \E r \in Responses, latency \in 0..MaxLag, jitter \in {JitterMin, JitterMax} :
        PostAnswered(r, latency, jitter)

\* lines 127-128 and 142-143: time.sleep(backoff_delay); continue.  Line 150
\* follows the loop if the range of line 110 is used up.
BackoffSleep ==
    /\ cpc = "backoff"
    /\ \E over \in 0..MaxLag : now' = now + backoff_delay + over
    /\ sleeps' = sleeps + 1
    /\ attempt' = attempt + 1
    /\ IF attempt + 1 <= max_retries
         THEN /\ cpc' = "post"
              /\ UNCHANGED outcome
         ELSE /\ cpc' = "ready"
              /\ outcome' = "maximum_retries_exceeded"
    /\ last_response' = NoResponse
    /\ UNCHANGED <<request_delay, max_retries, backoff_factor,
                   last_request_time, backoff_delay, retries_reported, sends,
                   http_calls, all_429, prev_turn, cur_turn, waited, prev_sent,
                   cur_sent>>
    /\ UNCHANGED jobVars
    /\ UNCHANGED histVars
    /\ UNCHANGED batchVars
    /\ UNCHANGED <<exists, file, pc>>
    /\ UNCHANGED runVars
    /\ UNCHANGED scanVars

\* a client constructed with any request_delay and max_retries (lines 12-42)
InitClient ==
    /\ RunnerIdle
    /\ now = StartClock
    /\ request_delay \in 0..MaxDelay
    /\ max_retries \in 0..MaxRetries
    /\ backoff_factor = BackoffFactor
    /\ ClientStart

NextClient ==
    \/ BeginSend
    \/ HttpPost
    \/ BackoffSleep

SpecClient == InitClient /\ [][NextClient]_vars

-----------------------------------------------------------------------------
(* The rate limiter called on its own, any time apart *)

\* client._wait_for_rate_limit()
LimiterCall ==
    /\ cpc = "ready"
    /\ sends < MaxTurns
    /\ \E lag \in 0..MaxWait, over \in 0..MaxLag : AwaitTurn(lag, over)
    /\ sends' = sends + 1
    /\ UNCHANGED <<request_delay, max_retries, backoff_factor, cpc, attempt,
                   backoff_delay, outcome, retries_reported, http_calls, sleeps,
                   last_response, all_429, prev_sent, cur_sent>>
    /\ UNCHANGED jobVars
    /\ UNCHANGED histVars
    /\ UNCHANGED batchVars
    /\ UNCHANGED <<exists, file, pc>>
    /\ UNCHANGED runVars
    /\ UNCHANGED scanVars

NextLimiter == LimiterCall

SpecLimiter == InitClient /\ [][NextLimiter]_vars

-----------------------------------------------------------------------------
(* Sends answered with HTTP 429 only, on clients of any backoff_factor *)

Status429 == {r \in Responses : r.kind = "http" /\ r.status = "429"}

\* requests.post answered with a 429, whatever its body
Post429 ==
    \E r \in Status429, latency \in 0..MaxLag, jitter \in {JitterMin, JitterMax} :
        PostAnswered(r, latency, jitter)

\* OpenRouterClient(request_delay=0, max_retries=..., backoff_factor=...)
InitBackoff ==
    /\ RunnerIdle
    /\ now = StartClock
    /\ request_delay = 0
    /\ max_retries \in 0..MaxRetries
    /\ backoff_factor \in 0..MaxFactor
    /\ ClientStart

\* one send on each client
NextBackoff ==
    \/ (sends = 0 /\ BeginSend)
    \/ Post429
    \/ BackoffSleep

SpecBackoff == InitBackoff /\ [][NextBackoff]_vars

-----------------------------------------------------------------------------
(* get_openrouter_model on its own *)

NameAlphabet == {"g", "e", "m", "a", "l", "3"}

\* every name of up to MaxNameLen characters of the alphabet, the keys of the
\* table, and each key with one more character
ModelNames ==
    UNION {[1..n -> NameAlphabet] : n \in 0..MaxNameLen}
        \cup DOMAIN OPENROUTER_MODEL_MAPPING
        \cup {k \o <<c>> : k \in DOMAIN OPENROUTER_MODEL_MAPPING,
                            c \in NameAlphabet}

\* openrouter_model = get_openrouter_model(model)
MapModel ==
    /\ pc = "idle"
    /\ openrouter_model' = get_openrouter_model(model)
    /\ pc' = "mapped"
    /\ UNCHANGED <<exists, file, start_arg, start_page, provider, api_key,
                   completed_pages, file_mode, page_num, response, calls,
                   payloads, runs, runlog, file0, exists0, read_ok>>
    /\ UNCHANGED jobVars
    /\ UNCHANGED histVars
    /\ UNCHANGED batchVars
    /\ UNCHANGED scanVars
    /\ UNCHANGED clientVars

InitMapper ==
    /\ model \in ModelNames
    /\ RunnerAtRest
    /\ ClientIdle

NextMapper == MapModel

SpecMapper == InitMapper /\ [][NextMapper]_vars

\* C17: for every name the mapper returns an id; a name that begins with the
\* five characters g, e, m, m, a gets the default id; any other name in the
\* table gets its table entry; every remaining name gets the default id.
C17_ModelNameMapper ==
    pc = "mapped" =>
      LET isGemma == /\ Len(model) >= 5
                     /\ <<model[1], model[2], model[3], model[4], model[5]>>
                          = <<"g", "e", "m", "m", "a">>
          inTable == model \in DOMAIN OPENROUTER_MODEL_MAPPING
      IN  /\ openrouter_model # NoModel
          /\ isGemma => openrouter_model = "google/gemma-3-27b-it:free"
          /\ (~isGemma /\ inTable)
                => openrouter_model = OPENROUTER_MODEL_MAPPING[model]
          /\ (~isGemma /\ ~inTable)
                => openrouter_model = "google/gemma-3-27b-it:free"

C17_Witness ==
    /\ pc = "mapped"
    /\ model = <<"l", "l", "a", "m", "a", "3">>
    /\ openrouter_model = "meta-llama/llama-3-8b-instruct"

-----------------------------------------------------------------------------
(* Claims about the client *)

\* C3 (as stated): when every attempt of a send is answered with HTTP 429, the
\* send ends after exactly max_retries + 1 requests with the rate-limit error
\* that carries max_retries; it never returns text.
C3_RateLimitExhaustion ==
    (cpc = "ready" /\ sends > 0 /\ all_429)
    => ( /\ outcome = "rate_limit_exceeded"
         /\ http_calls = max_retries + 1
         /\ sleeps = max_retries
         /\ retries_reported = max_retries )

\* the same when every 429 body is a JSON object whose "error" is an object
C3_JsonObjectBodies ==
    ( /\ cpc = "ready" /\ sends > 0 /\ all_429
      /\ last_response.body \in {"content", "no_choices", "empty_choices",
                                 "no_message", "no_content"}
      /\ outcome # "request_failed" /\ outcome # "uncaught" )
    => ( /\ outcome = "rate_limit_exceeded"
         /\ http_calls = max_retries + 1
         /\ retries_reported = max_retries )

\* C4 (as stated): a response with a non-success status other than 429 ends
\* the send at once with the request-failed error, whatever its status line
\* and body say, at every attempt and for every max_retries: no backoff, no retry.
C4_NoRetryOnOtherStatus ==
    (last_response.kind = "http" /\ last_response.status = "error")
    => ( /\ cpc = "ready"
         /\ outcome = "request_failed" )

\* C5: the instants at which two consecutive calls of _wait_for_rate_limit
\* return are at least request_delay apart.
C5_RateLimiterSpacing ==
    prev_turn >= 0 => cur_turn - prev_turn >= request_delay

C5_Witness ==
    /\ prev_turn >= 0
    /\ request_delay >= 2
    /\ waited
    /\ cur_turn - prev_turn = request_delay

\* C6 (as stated): two consecutive requests of one client, first attempts and
\* retries alike, are sent at least request_delay apart.
C6_RequestSpacing ==
    prev_sent >= 0 => cur_sent - prev_sent >= request_delay

\* C16: on 429 responses the delay computed at attempt a < max_retries
\* exceeds backoff_factor^a seconds (the jitter is positive and only adds), the
\* next attempt is not sent before that delay has passed, and for
\* backoff_factor > 1 the bound of attempt a + 1 exceeds the bound of attempt a.
C16_BackoffMonotonicity ==
    /\ cpc = "backoff"
          => ( /\ attempt < max_retries
               /\ backoff_delay > TicksPerSecond * Power(backoff_factor, attempt)
               /\ backoff_factor > 1
                     => Power(backoff_factor, attempt + 1)
                          > Power(backoff_factor, attempt) )
    /\ (cpc = "post" /\ attempt >= 1)
          => now - cur_sent > TicksPerSecond * Power(backoff_factor, attempt - 1)

C16_Witness ==
    /\ cpc = "post"
    /\ attempt = 2
    /\ backoff_factor = 3
    /\ all_429
    /\ now - cur_sent = TicksPerSecond * Power(backoff_factor, 1) + JitterMin

\* C19 (as stated): every requests.post, a retry included, directly follows a
\* call of _wait_for_rate_limit of its own, so that after each post the
\* last-request timestamp is the instant at which that post was sent.
C19_AwaitTurnPerAttempt ==
    http_calls > 0 => last_request_time = cur_sent

\* C20 (as stated): the first call of _wait_for_rate_limit on a client returns
\* no sooner than request_delay after the client was constructed (the
\* construction is the instant StartClock).
C20_FirstTurnAfterConstruction ==
    (cur_turn >= 0 /\ prev_turn < 0) => cur_turn - StartClock >= request_delay

\* C24 (as stated): a response with a success status whose body holds the first
\* choice's message content ends the send with that text; one whose "choices"
\* is absent or empty, whose choice has no "message" or whose message has no
\* "content" ends it with the malformed-response error; no further request.
C24_SuccessBody ==
    ( /\ last_response.kind = "http"
      /\ last_response.status = "ok"
      /\ last_response.body \in {"content", "no_choices", "empty_choices",
                                 "no_message", "no_content"} )
    => ( /\ cpc = "ready"
         /\ outcome = (IF last_response.body = "content"
                         THEN "text" ELSE "malformed") )


\* C25 (as stated): a transport-level exception whose text mentions "429" is
\* handled exactly like an HTTP 429 response: it is retried with backoff while
\* the attempts so far are fewer than max_retries, and it ends in the
\* rate-limit-exceeded error once the retries are exhausted; one whose text
\* does not mention "429" is surfaced after that single call as a
\* request-failed error.
C25_TransportLike429 ==
    last_response.kind = "transport"
        => IF last_response.mentions429
             THEN /\ (attempt < max_retries => cpc = "backoff")
                  /\ (attempt >= max_retries =>
                        /\ cpc = "ready"
                        /\ outcome = "rate_limit_exceeded")
             ELSE /\ cpc = "ready"
                  /\ outcome = "request_failed"


\* C26 (as stated): the retry decision on an HTTP 429 response depends only on
\* the status and the attempt number: a 429 received while the attempts so far
\* are fewer than max_retries leads to the backoff sleep and another attempt,
\* whatever its body.
C26_RetryWhateverBody ==
    ( /\ last_response.kind = "http"
      /\ last_response.status = "429"
      /\ attempt < max_retries )
    => cpc = "backoff"

-----------------------------------------------------------------------------
(* One call of chat_with_images on each client, every request answered *)

\* requests.post answered with any response or transport exception; the
\* jitter of a backoff is the smallest
PostAnyAnswer ==
    \E r \in Responses, latency \in 0..MaxLag :
        PostAnswered(r, latency, JitterMin)

\* one send on each client
NextSend ==
    \/ (sends = 0 /\ BeginSend)
    \/ PostAnyAnswer
    \/ BackoffSleep

\* requests.post is called with timeout=120 and so returns or raises;
\* time.sleep returns
SpecSendFair ==
    /\ InitClient
    /\ [][NextSend]_vars
    /\ WF_vars(PostAnyAnswer)
    /\ WF_vars(BackoffSleep)

\* how chat_with_images can end: the text, or one of its errors
SendEndings ==
    {"text", "malformed", "request_failed", "rate_limit_exceeded",
     "maximum_retries_exceeded", "uncaught"}

\* C31: chat_with_images always terminates: whatever max_retries and whatever
\* the responses and transport exceptions, a call that has started comes to
\* its end, having made at least one and at most max_retries + 1 HTTP calls
\* and at most max_retries backoff sleeps, and its end is the text or an error.
C31_SendTerminates ==
    /\ [](/\ http_calls <= max_retries + 1
          /\ sleeps <= max_retries
          /\ (cpc = "ready" /\ sends > 0)
                => /\ http_calls >= 1
                   /\ outcome \in SendEndings)
    /\ (cpc # "ready") ~> (cpc = "ready")

C31_Witness ==
    /\ cpc = "ready"
    /\ sends = 1
    /\ max_retries = MaxRetries
    /\ http_calls = max_retries + 1
    /\ sleeps = max_retries
    /\ outcome = "text"

\* C32: the statement after the retry loop that raises "Maximum retries
\* exceeded" is never reached: whatever max_retries and the responses, the
\* iteration of the last attempt ends the call inside the loop, by a return or
\* a raise, and no call ends with that error.
C32_FinalRaiseUnreachable ==
    /\ outcome # "maximum_retries_exceeded"
    /\ (last_response.kind # "none" /\ attempt = max_retries)
          => (cpc = "ready" /\ outcome \in SendEndings)

C32_Witness ==
    /\ cpc = "ready"
    /\ max_retries >= 1
    /\ attempt = max_retries
    /\ sleeps = max_retries
    /\ last_response.kind = "http"
    /\ last_response.status = "429"
    /\ outcome = "rate_limit_exceeded"

====
